---- MODULE Spec2Model ----
(***************************************************************************)
(* SmartMinesweeper: the board generator, the single-constraint solver,    *)
(* the hint finder and the flood fill of src/utils/gameLogic.ts.           *)
(*                                                                         *)
(* A Board (src/types.ts:34) is modelled as a record                       *)
(*   [rows, cols, isMine, isRevealed, isFlagged, neighborCount]            *)
(* where isMine, isRevealed and isFlagged are the sets of coordinates      *)
(* <<x, y>> (x the row, y the column) whose field is true, and             *)
(* neighborCount is a function from coordinates to numbers.                *)
(***************************************************************************)
EXTENDS Integers, Sequences, FiniteSets, TLC

VARIABLES
    args,       \* the arguments of the call in progress: rows, cols, mines, startX, startY
    board,      \* the Board being built, returned, or worked on
    attempts,   \* generateGuaranteedBoard's attempts counter
    placed,     \* generateGuaranteedBoard's placed counter
    pc,         \* position in the program
    call,       \* the last call made on board: its name, arguments, board before, result
    solver      \* isSolvable's locals: the shadow state, the scan position, progress

vars == <<args, board, attempts, placed, pc, call, solver>>

NoCall == [op |-> "none"]
NoSolver == [k |-> -1]

----------------------------------------------------------------------------
(* Bounds of the model *)

\* Largest mine count requested from the generator.
MaxMines == 2

\* Bounds of the grids handed to floodFill, findHint and isSolvable: the
\* number of mines, of cells already revealed, and of flags.
MaxGridMines == 2
MaxRevealed == 2
MaxFlagged == 1

\* Bounds of the game: the flags on the board at one time, and the first
\* clicks whose setTimeout callback has not run yet.
MaxGameFlags == 1
MaxPending == 1

\* Board shapes <<rows, cols>> requested from the generator: the smallest
\* boards on which mines < rows * cols - 9 leaves room for two mines.
GenShapes == {<<3, 4>>}

\* Start cells requested from the generator: a corner, a cell of each edge
\* and an interior cell (every cell of a 3 x 4 board is the mirror image of
\* one of them).
GenStarts == {<<0, 0>>, <<0, 1>>, <<1, 0>>, <<1, 1>>}

----------------------------------------------------------------------------
(* Grid model *)

Cells(rows, cols) == (0 .. rows - 1) \X (0 .. cols - 1)

InBounds(x, y, rows, cols) == x >= 0 /\ x < rows /\ y >= 0 /\ y < cols

\* The nine <<i, j>> of "for i = -1..1, for j = -1..1", in loop order.
Offsets ==
    << <<-1, -1>>, <<-1, 0>>, <<-1, 1>>,
       << 0, -1>>, << 0, 0>>, << 0, 1>>,
       << 1, -1>>, << 1, 0>>, << 1, 1>> >>

\* Row-major order of the cells, "for r = 0..rows-1, for c = 0..cols-1".
CellAt(k, cols) == <<k \div cols, k % cols>>

Range(s) == {s[k] : k \in 1 .. Len(s)}

\* The code's loops and recursion are modelled as machines that take one step
\* at a time.  Iterate takes up to n steps F of a machine in state s, stopping
\* when Done; RunToEnd takes steps until Done.
\* Strict(v, G) is G(v) with v evaluated once, before G is applied.
Strict(v, G(_)) == CHOOSE r \in {G(w) : w \in {v}} : TRUE

RECURSIVE Iterate(_, _, _, _)
Iterate(F(_), Done(_), s, n) ==
    Strict(s, LAMBDA v :
        IF n = 0 \/ Done(v) THEN v
        ELSE IF n = 1 THEN F(v)
        ELSE Iterate(F, Done, Iterate(F, Done, v, n \div 2), n - (n \div 2)))

RECURSIVE RunToEnd(_, _, _, _)
RunToEnd(F(_), Done(_), s, n) ==
    Strict(s, LAMBDA v :
        IF Done(v) THEN v ELSE RunToEnd(F, Done, Iterate(F, Done, v, n), 2 * n))

createEmptyBoard(rows, cols) ==
    [rows |-> rows, cols |-> cols,
     isMine |-> {}, isRevealed |-> {}, isFlagged |-> {},
     neighborCount |-> [p \in Cells(rows, cols) |-> 0]]

\* The in-bounds 8 neighbours of (r, c), in the order the loops push them.
getNeighbors(r, c, rows, cols) ==
    LET Cand == [k \in 1 .. 9 |-> <<r + Offsets[k][1], c + Offsets[k][2]>>]
        Keep(p) == InBounds(p[1], p[2], rows, cols) /\ p # <<r, c>>
    IN  SelectSeq(Cand, Keep)

----------------------------------------------------------------------------
(* Reveal propagator *)

\* floodFill's recursion is run on an explicit call stack.  A machine state
\* is [board, stack]; a frame [x, y, k] is an activation of floodFill(x, y)
\* inside its loops, about to make the k-th of its nine recursive calls
\* (k = 10: the loops are over).

\* A slip: the fill spreads from cells that count one mine too.
FloodExpandsAtOne(b, x, y) == b.neighborCount[<<x, y>>] <= 1

\* A slip: the fill spreads from every cell it reveals.
FloodExpandsAlways(b, x, y) == TRUE

\* if (board[x][y].neighborCount === 0)
FloodExpands(b, x, y) == b.neighborCount[<<x, y>>] = 0

\* A slip: the guard does not test isFlagged.
FloodCallNoFlagTest(m, x, y) ==
    IF x < 0 \/ x >= m.board.rows \/ y < 0 \/ y >= m.board.cols
          \/ <<x, y>> \in m.board.isRevealed
    THEN m
    ELSE [board |-> [m.board EXCEPT !.isRevealed = @ \cup {<<x, y>>}],
          stack |-> IF FloodExpands(m.board, x, y)
                    THEN <<[x |-> x, y |-> y, k |-> 1]>> \o m.stack
                    ELSE m.stack]

\* A slip: a flagged cell that the fill meets loses its flag.
FloodCallUnflags(m, x, y) ==
    IF x < 0 \/ x >= m.board.rows \/ y < 0 \/ y >= m.board.cols
          \/ <<x, y>> \in m.board.isRevealed
    THEN m
    ELSE IF <<x, y>> \in m.board.isFlagged
    THEN [m EXCEPT !.board.isFlagged = @ \ {<<x, y>>}]
    ELSE [board |-> [m.board EXCEPT !.isRevealed = @ \cup {<<x, y>>}],
          stack |-> IF FloodExpands(m.board, x, y)
                    THEN <<[x |-> x, y |-> y, k |-> 1]>> \o m.stack
                    ELSE m.stack]

\* Entering floodFill(board, x, y): the guard, the reveal, and the test that
\* opens the loops.
FloodCall(m, x, y) ==
    IF x < 0 \/ x >= m.board.rows \/ y < 0 \/ y >= m.board.cols
          \/ <<x, y>> \in m.board.isRevealed \/ <<x, y>> \in m.board.isFlagged
    THEN m
    ELSE [board |-> [m.board EXCEPT !.isRevealed = @ \cup {<<x, y>>}],
          stack |-> IF FloodExpands(m.board, x, y)
                    THEN <<[x |-> x, y |-> y, k |-> 1]>> \o m.stack
                    ELSE m.stack]

\* One iteration of the loops of the activation on top of the stack.
FloodStep(m) ==
    LET top == Head(m.stack)
    IN  IF top.k > 9 THEN [m EXCEPT !.stack = Tail(@)]
        ELSE FloodCall([m EXCEPT !.stack[1].k = top.k + 1],
                       top.x + Offsets[top.k][1], top.y + Offsets[top.k][2])

FloodDone(m) == m.stack = <<>>

\* floodFill(board, x, y): the board after the call.
floodFill(b, x, y) ==
    Strict(<<b, x, y>>, LAMBDA v :
        RunToEnd(FloodStep, FloodDone,
                 FloodCall([board |-> v[1], stack |-> <<>>], v[2], v[3]), 1).board)

----------------------------------------------------------------------------
(* Logical solver *)

\* The shadow state "solved": the sets of cells marked revealed and flagged.
\* A slip: the shadow state copies the grid's flags.
InitSolvedKeepsFlags(b) == [revealed |-> b.isRevealed, flagged |-> b.isFlagged]

InitSolved(b) == [revealed |-> b.isRevealed, flagged |-> {}]

\* The closure reveal of isSolvable, run on an explicit call stack like
\* floodFill; a machine state is [solved, stack].
\* A slip: reveal marks the cell and never spreads from it.
RevealCallNoSpread(b, m, x, y) ==
    IF x < 0 \/ x >= b.rows \/ y < 0 \/ y >= b.cols \/ <<x, y>> \in m.solved.revealed
    THEN m
    ELSE [solved |-> [m.solved EXCEPT !.revealed = @ \cup {<<x, y>>}],
          stack |-> m.stack]

RevealCall(b, m, x, y) ==
    IF x < 0 \/ x >= b.rows \/ y < 0 \/ y >= b.cols \/ <<x, y>> \in m.solved.revealed
    THEN m
    ELSE [solved |-> [m.solved EXCEPT !.revealed = @ \cup {<<x, y>>}],
          stack |-> IF b.neighborCount[<<x, y>>] = 0
                    THEN <<[x |-> x, y |-> y, k |-> 1]>> \o m.stack
                    ELSE m.stack]

RevealStep(b, m) ==
    LET top == Head(m.stack)
    IN  IF top.k > 9 THEN [m EXCEPT !.stack = Tail(@)]
        ELSE RevealCall(b, [m EXCEPT !.stack[1].k = top.k + 1],
                        top.x + Offsets[top.k][1], top.y + Offsets[top.k][2])

RevealDone(m) == m.stack = <<>>

\* reveal(x, y) on shadow state s: the shadow state after the call.
reveal(b, s, x, y) ==
    Strict(<<s, x, y>>, LAMBDA v :
        RunToEnd(LAMBDA m : RevealStep(b, m), RevealDone,
                 RevealCall(b, [solved |-> v[1], stack |-> <<>>], v[2], v[3]), 1).solved)

RECURSIVE revealAll(_, _, _, _)
\* unflaggedHidden.forEach(n => reveal(n.r, n.c)): the shadow state after
\* the first k elements of seq.
revealAll(b, s, seq, k) ==
    IF k = 0 THEN s
    ELSE reveal(b, revealAll(b, s, seq, k - 1), seq[k][1], seq[k][2])

\* What one visit of the scan reads for cell (r, c) in shadow state s.
Around(b, s, r, c) ==
    LET neighbors == getNeighbors(r, c, b.rows, b.cols)
        IsHidden(n) == n \notin s.revealed
        IsFlagged(n) == n \in s.flagged
        NotFlagged(n) == n \notin s.flagged
        hidden == SelectSeq(neighbors, IsHidden)
    IN  [flaggedCount |-> Len(SelectSeq(neighbors, IsFlagged)),
         unflaggedHidden |-> SelectSeq(hidden, NotFlagged)]

\* if (!solved[r][c].revealed || board[r][c].neighborCount === 0) continue
Skipped(b, s, r, c) == <<r, c>> \notin s.revealed \/ b.neighborCount[<<r, c>>] = 0

MineRule(b, a, r, c) ==
    /\ b.neighborCount[<<r, c>>] = a.flaggedCount + Len(a.unflaggedHidden)
    /\ Len(a.unflaggedHidden) > 0

\* A slip: the safe rule does not compare the count with the flags.
SafeRuleNoCount(b, a, r, c) == Len(a.unflaggedHidden) > 0

SafeRule(b, a, r, c) ==
    /\ b.neighborCount[<<r, c>>] = a.flaggedCount
    /\ Len(a.unflaggedHidden) > 0

\* The body of the scan for cell (r, c): the shadow state after it, and
\* whether it set progress.  Both tests read the neighbourhood as it was
\* when the visit began.
Visit(b, s, r, c) ==
    IF Skipped(b, s, r, c) THEN [solved |-> s, fired |-> FALSE]
    ELSE Strict(Around(b, s, r, c), LAMBDA a :
             LET uh == a.unflaggedHidden
                 s1 == IF MineRule(b, a, r, c)
                       THEN [s EXCEPT !.flagged = @ \cup Range(uh)]
                       ELSE s
                 s2 == IF SafeRule(b, a, r, c) THEN revealAll(b, s1, uh, Len(uh)) ELSE s1
             IN  [solved |-> s2, fired |-> MineRule(b, a, r, c) \/ SafeRule(b, a, r, c)])

\* The fixed-point loop as a machine.  A state is [solved, k, progress, done]:
\* the scan is about to visit its k-th cell in row-major order (k counts from
\* 0; k = rows * cols: the scan is over and "while (progress)" is tested).
StartSolver(b, startX, startY) ==
    [solved |-> reveal(b, InitSolved(b), startX, startY),
     k |-> 0, progress |-> FALSE, done |-> FALSE]

\* A slip: the loop stops after its first scan whatever progress says.
SolverStepOnePass(b, t) ==
    IF t.k < b.rows * b.cols
    THEN Strict(Visit(b, t.solved, CellAt(t.k, b.cols)[1], CellAt(t.k, b.cols)[2]),
                LAMBDA v : [t EXCEPT !.solved = v.solved, !.k = t.k + 1,
                                     !.progress = t.progress \/ v.fired])
    ELSE [t EXCEPT !.done = TRUE]

\* A slip: "while (progress)" is "while (true)".
SolverStepForever(b, t) ==
    IF t.k < b.rows * b.cols
    THEN Strict(Visit(b, t.solved, CellAt(t.k, b.cols)[1], CellAt(t.k, b.cols)[2]),
                LAMBDA v : [t EXCEPT !.solved = v.solved, !.k = t.k + 1,
                                     !.progress = t.progress \/ v.fired])
    ELSE [t EXCEPT !.k = 0, !.progress = FALSE]

\* One step of the loop: the visit of one cell, or the test of
\* "while (progress)" after a scan.
SolverStep(b, t) ==
    IF t.k < b.rows * b.cols
    THEN Strict(Visit(b, t.solved, CellAt(t.k, b.cols)[1], CellAt(t.k, b.cols)[2]),
                LAMBDA v : [t EXCEPT !.solved = v.solved, !.k = t.k + 1,
                                     !.progress = t.progress \/ v.fired])
    ELSE IF t.progress
         THEN [t EXCEPT !.k = 0, !.progress = FALSE]
         ELSE [t EXCEPT !.done = TRUE]

SolverDone(t) == t.done

\* The shadow state isSolvable ends its loop with.
FinalSolved(b, startX, startY) ==
    RunToEnd(LAMBDA t : SolverStep(b, t), SolverDone, StartSolver(b, startX, startY), 1).solved

\* A slip: the final scan accepts every board.
AllSafeRevealedSkipped(b, s) == TRUE

\* The final scan: no non-mine cell is left unrevealed in the shadow state.
AllSafeRevealed(b, s) ==
    \A p \in Cells(b.rows, b.cols) : p \in b.isMine \/ p \in s.revealed

isSolvable(b, startX, startY) ==
    Strict(FinalSolved(b, startX, startY), LAMBDA s : AllSafeRevealed(b, s))

----------------------------------------------------------------------------
(* Hint finder *)

\* What findHint reads for cell (r, c) on the real board.
HintAround(b, r, c) ==
    LET neighbors == getNeighbors(r, c, b.rows, b.cols)
        IsHidden(n) == n \notin b.isRevealed
        IsFlagged(n) == n \in b.isFlagged
        NotFlagged(n) == n \notin b.isFlagged
        hidden == SelectSeq(neighbors, IsHidden)
    IN  [flaggedCount |-> Len(SelectSeq(neighbors, IsFlagged)),
         unflaggedHidden |-> SelectSeq(hidden, NotFlagged)]

\* A slip: the flagged neighbours are left out of the mine rule.
HintMineRuleNoFlags(b, a, r, c) == b.neighborCount[<<r, c>>] = Len(a.unflaggedHidden)

\* Rule 1: all unflagged hidden must be mines.
HintMineRule(b, a, r, c) ==
    b.neighborCount[<<r, c>>] = a.flaggedCount + Len(a.unflaggedHidden)

\* Rule 2: all unflagged hidden must be safe.
\* A slip: rule 2 accepts a count above the flags.
HintSafeRuleAtLeast(b, a, r, c) == b.neighborCount[<<r, c>>] >= a.flaggedCount

HintSafeRule(b, a, r, c) == b.neighborCount[<<r, c>>] = a.flaggedCount

NoHint == [type |-> "null"]

\* A slip: the move names the last unflagged hidden neighbour.
HintAtLast(b, r, c) ==
    IF <<r, c>> \notin b.isRevealed \/ b.neighborCount[<<r, c>>] = 0 THEN NoHint
    ELSE Strict(HintAround(b, r, c), LAMBDA a :
             LET uh == a.unflaggedHidden
             IN  IF Len(uh) = 0 THEN NoHint
                 ELSE IF HintMineRule(b, a, r, c)
                 THEN [x |-> uh[Len(uh)][1], y |-> uh[Len(uh)][2], type |-> "MINE"]
                 ELSE IF HintSafeRule(b, a, r, c)
                 THEN [x |-> uh[Len(uh)][1], y |-> uh[Len(uh)][2], type |-> "SAFE"]
                 ELSE NoHint)

\* The body of findHint's scan for cell (r, c): the move it returns, or
\* NoHint when the scan goes on.
HintAt(b, r, c) ==
    IF <<r, c>> \notin b.isRevealed \/ b.neighborCount[<<r, c>>] = 0 THEN NoHint
    ELSE Strict(HintAround(b, r, c), LAMBDA a :
             LET uh == a.unflaggedHidden
             IN  IF Len(uh) = 0 THEN NoHint
                 ELSE IF HintMineRule(b, a, r, c)
                 THEN [x |-> uh[1][1], y |-> uh[1][2], type |-> "MINE"]
                 ELSE IF HintSafeRule(b, a, r, c)
                 THEN [x |-> uh[1][1], y |-> uh[1][2], type |-> "SAFE"]
                 ELSE NoHint)

\* findHint(board): the move of the first cell of the row-major scan that
\* returns one, NoHint (null) when the scan ends without one.
findHint(b) ==
    Strict([k \in 0 .. b.rows * b.cols - 1 |->
               HintAt(b, CellAt(k, b.cols)[1], CellAt(k, b.cols)[2])],
           LAMBDA scan :
               LET Returns == {k \in DOMAIN scan : scan[k] # NoHint}
               IN  IF Returns = {} THEN NoHint
                   ELSE scan[CHOOSE i \in Returns : \A j \in Returns : i <= j])

----------------------------------------------------------------------------
(* Board generator *)

maxAttempts == 500

\* A slip: the block kept free of mines reaches three cells from the start.
isNearStartWide(rx, ry, startX, startY) ==
    /\ rx - startX \in -3 .. 3
    /\ ry - startY \in -3 .. 3

\* A slip: only the row distance is tested.
isNearStartRowOnly(rx, ry, startX, startY) ==
    LET dx == rx - startX
    IN  (IF dx < 0 THEN -dx ELSE dx) <= 1 /\ ry = startY

isNearStart(rx, ry, startX, startY) ==
    LET dx == rx - startX
        dy == ry - startY
    IN  (IF dx < 0 THEN -dx ELSE dx) <= 1 /\ (IF dy < 0 THEN -dy ELSE dy) <= 1

\* A slip: the diagonal neighbours are left out of the count.
CountAtOrthogonal(b, r, c) ==
    Cardinality({k \in {2, 4, 6, 8} :
        <<r + Offsets[k][1], c + Offsets[k][2]>> \in b.isMine})

\* The count loop of one non-mine cell: mines among the in-bounds cells of
\* its 3x3 block (the cell itself is not a mine).
CountAt(b, r, c) ==
    Cardinality({k \in 1 .. 9 :
        /\ InBounds(r + Offsets[k][1], c + Offsets[k][2], b.rows, b.cols)
        /\ <<r + Offsets[k][1], c + Offsets[k][2]>> \in b.isMine})

\* The neighbor-count pass over the whole board; mine cells are skipped.
ComputeCounts(b) ==
    [b EXCEPT !.neighborCount =
        [p \in Cells(b.rows, b.cols) |->
            IF p \in b.isMine THEN b.neighborCount[p] ELSE CountAt(b, p[1], p[2])]]

GenArgs ==
    {[rows |-> sh[1], cols |-> sh[2], mines |-> m, startX |-> p[1], startY |-> p[2]] :
        sh \in GenShapes, m \in 0 .. MaxMines, p \in GenStarts}

Init ==
    /\ args \in {a \in GenArgs : InBounds(a.startX, a.startY, a.rows, a.cols)}
    /\ board = createEmptyBoard(args.rows, args.cols)
    /\ attempts = 0
    /\ placed = 0
    /\ pc = "loop"
    /\ call = NoCall
    /\ solver = NoSolver

\* The candidates isSolvable has rejected so far in this call.
Rejected == IF call.op = "isSolvable" THEN call.rejected ELSE 0

\* A slip: the loop test lets one attempt too many through.
BeginAttemptOneMore ==
    /\ pc = "loop"
    /\ attempts <= maxAttempts
    /\ attempts' = attempts + 1
    /\ board' = createEmptyBoard(args.rows, args.cols)
    /\ placed' = 0
    /\ pc' = "place"
    /\ UNCHANGED <<args, call, solver>>

\* while (attempts < maxAttempts) { attempts++; board = createEmptyBoard; placed = 0
BeginAttempt ==
    /\ pc = "loop"
    /\ attempts < maxAttempts
    /\ attempts' = attempts + 1
    /\ board' = createEmptyBoard(args.rows, args.cols)
    /\ placed' = 0
    /\ pc' = "place"
    /\ UNCHANGED <<args, call, solver>>

\* One iteration of while (placed < mines) with the random draw (rx, ry).
PlaceMine ==
    /\ pc = "place"
    /\ placed < args.mines
    /\ \E rx \in 0 .. args.rows - 1, ry \in 0 .. args.cols - 1 :
          IF <<rx, ry>> \notin board.isMine /\ ~isNearStart(rx, ry, args.startX, args.startY)
          THEN /\ board' = [board EXCEPT !.isMine = @ \cup {<<rx, ry>>}]
               /\ placed' = placed + 1
          ELSE UNCHANGED <<board, placed>>
    /\ UNCHANGED <<args, attempts, pc, call, solver>>

\* A slip: the candidate is returned whatever isSolvable says.
FinishAttemptUnchecked ==
    /\ pc = "place"
    /\ ~(placed < args.mines)
    /\ board' = ComputeCounts(board)
    /\ pc' = "returned"
    /\ UNCHANGED <<args, attempts, placed, call, solver>>

\* The rest of the attempt: the neighbor counts, then the isSolvable test
\* that returns the candidate or goes round the loop.
FinishAttempt ==
    /\ pc = "place"
    /\ ~(placed < args.mines)
    /\ board' = ComputeCounts(board)
    /\ \E ok \in {isSolvable(board', args.startX, args.startY)} :
          /\ pc' = IF ok THEN "returned" ELSE "loop"
          /\ call' = [op |-> "isSolvable", result |-> ok,
                      rejected |-> Rejected + (IF ok THEN 0 ELSE 1)]
    /\ UNCHANGED <<args, attempts, placed, solver>>

\* The loop ran out: return createEmptyBoard(rows, cols).
ReturnFallback ==
    /\ pc = "loop"
    /\ ~(attempts < maxAttempts)
    /\ board' = createEmptyBoard(args.rows, args.cols)
    /\ pc' = "returned"
    /\ UNCHANGED <<args, attempts, placed, call, solver>>

Next ==
    \/ BeginAttempt
    \/ PlaceMine
    \/ FinishAttempt
    \/ ReturnFallback

Spec == Init /\ [][Next]_vars

----------------------------------------------------------------------------
(* Properties of the generator *)

\* generateGuaranteedBoard's parameters are valid: the start is in bounds and
\* 0 <= mines < rows * cols - 9.
ValidArgs ==
    /\ InBounds(args.startX, args.startY, args.rows, args.cols)
    /\ args.mines >= 0
    /\ args.mines < args.rows * args.cols - 9

\* The empty fallback: no mines, every count 0, every cell hidden and unflagged.
IsEmptyFallback(b) ==
    /\ b.isMine = {}
    /\ b.isRevealed = {}
    /\ b.isFlagged = {}
    /\ \A p \in Cells(b.rows, b.cols) : b.neighborCount[p] = 0

\* The cells within Chebyshev distance 1 of the start cell.
StartBlock ==
    {p \in Cells(args.rows, args.cols) :
        /\ p[1] \in args.startX - 1 .. args.startX + 1
        /\ p[2] \in args.startY - 1 .. args.startY + 1}

\* The mines among the 8 neighbours of cell p of board b, p itself excluded.
MinesAround(b, p) ==
    {q \in b.isMine :
        /\ q # p
        /\ q[1] \in p[1] - 1 .. p[1] + 1
        /\ q[2] \in p[2] - 1 .. p[2] + 1}

\* C1: with valid parameters, whatever mines the random placement chose, the
\* board generateGuaranteedBoard returns either passes isSolvable from the
\* start cell or is the empty fallback.
C1_ReturnedSolvableOrFallback ==
    (pc = "returned" /\ ValidArgs) =>
        \/ isSolvable(board, args.startX, args.startY)
        \/ IsEmptyFallback(board)

\* A board with mines is returned after an earlier candidate was rejected.
C1_Witness ==
    /\ pc = "returned"
    /\ ValidArgs
    /\ attempts > 1
    /\ board.isMine # {}
    /\ isSolvable(board, args.startX, args.startY)

\* C2: no cell within Chebyshev distance 1 of the start cell is a mine, in
\* the returned board and in every candidate board of every attempt.
C2_NoMineNearStart == board.isMine \cap StartBlock = {}

\* A full candidate of a later attempt, with a mine right outside the block.
C2_Witness ==
    /\ attempts > 1
    /\ placed = args.mines
    /\ \E p \in board.isMine :
          \E q \in StartBlock : p[1] - q[1] \in -1 .. 1 /\ p[2] - q[2] \in -1 .. 1

\* C3: in the returned board every non-mine cell's neighborCount is the number
\* of mines among its in-bounds 8 neighbours, edge and corner cells included.
C3_CountsExact ==
    pc = "returned" =>
        \A p \in Cells(board.rows, board.cols) \ board.isMine :
            board.neighborCount[p] = Cardinality(MinesAround(board, p))

\* A returned board where a corner cell counts a diagonal mine and some cell
\* counts two mines.
C3_Witness ==
    /\ pc = "returned"
    /\ \E p \in {<<0, 0>>, <<0, board.cols - 1>>, <<board.rows - 1, 0>>,
                 <<board.rows - 1, board.cols - 1>>} :
          /\ p \notin board.isMine
          /\ \E q \in MinesAround(board, p) : q[1] # p[1] /\ q[2] # p[2]
    /\ \E p \in Cells(board.rows, board.cols) \ board.isMine : board.neighborCount[p] = 2

\* C11: generateGuaranteedBoard returns the candidate of the first attempt
\* that isSolvable accepts without starting another attempt, returns the
\* empty fallback only after exactly 500 attempts were each rejected, and
\* never makes more than 500 attempts.
C11_FirstAcceptedElseFallbackAfter500 ==
    /\ [](attempts <= 500)
    /\ [][/\ pc # "returned"
          /\ (pc = "place" /\ pc' # "place") =>
                /\ pc' = (IF call'.result THEN "returned" ELSE "loop")
                /\ board'.isMine = board.isMine
                /\ attempts' = attempts
                /\ call'.result => call'.rejected = attempts - 1
          /\ (pc = "loop" /\ pc' = "returned") =>
                /\ attempts = 500
                /\ Rejected = 500
                /\ IsEmptyFallback(board')]_vars

\* The fallback is returned after 500 rejections although mines were asked for.
C11_Witness ==
    /\ pc = "returned"
    /\ args.mines > 0
    /\ attempts = 500
    /\ Rejected = 500
    /\ IsEmptyFallback(board)

----------------------------------------------------------------------------
(* The generator asked for rows * cols - 9 mines *)

FullShapes == {<<3, 4>>}

FullArgs ==
    {[rows |-> sh[1], cols |-> sh[2], mines |-> sh[1] * sh[2] - 9,
      startX |-> p[1], startY |-> p[2]] : sh \in FullShapes, p \in GenStarts}

FullInit ==
    /\ args \in FullArgs
    /\ board = createEmptyBoard(args.rows, args.cols)
    /\ attempts = 0
    /\ placed = 0
    /\ pc = "loop"
    /\ call = NoCall
    /\ solver = NoSolver

SpecFull == FullInit /\ [][Next]_vars

\* The start cell has all 8 neighbours on the board.
InteriorStart == Cardinality(StartBlock) = 9

\* C12 as stated: with mines = rows * cols - 9 every candidate is rejected by
\* isSolvable, so the empty fallback is returned after the 500 attempts.
C12_AlwaysFallback ==
    pc = "returned" => IsEmptyFallback(board) /\ Rejected = 500

\* C12 as the code has it: with mines = rows * cols - 9 the board returned is
\* a candidate with that many mines that isSolvable accepted, or the empty
\* fallback after 500 rejections; from an interior start the mines fill the
\* cells outside the start's 3 x 3 block and the first candidate is accepted.
C12_AcceptedOrFallback ==
    pc = "returned" =>
        /\ \/ /\ Cardinality(board.isMine) = args.mines
              /\ board.isMine \cap StartBlock = {}
              /\ call.result
              /\ isSolvable(board, args.startX, args.startY)
           \/ IsEmptyFallback(board) /\ Rejected = 500
        /\ InteriorStart =>
              /\ board.isMine = Cells(args.rows, args.cols) \ StartBlock
              /\ Rejected = 0

\* A board with rows * cols - 9 > 0 mines is returned from an interior start.
C12_Witness ==
    /\ pc = "returned"
    /\ InteriorStart
    /\ args.mines = args.rows * args.cols - 9
    /\ Cardinality(board.isMine) = args.mines
    /\ board.isMine # {}

----------------------------------------------------------------------------
(* The generator under fair random choice *)

\* The start cell of the calls followed to their end: an edge cell, from which
\* some candidates are accepted and some rejected.
TermStarts == {<<0, 1>>}

TermArgs ==
    {a \in GenArgs :
        /\ <<a.startX, a.startY>> \in TermStarts
        /\ InBounds(a.startX, a.startY, a.rows, a.cols)
        /\ a.mines >= 0
        /\ a.mines < a.rows * a.cols - 9}

TermInit ==
    /\ args \in TermArgs
    /\ board = createEmptyBoard(args.rows, args.cols)
    /\ attempts = 0
    /\ placed = 0
    /\ pc = "loop"
    /\ call = NoCall
    /\ solver = NoSolver

\* The function keeps running, and Math.random does not avoid for ever the
\* cells the placement loop can take.
FairGen ==
    /\ TermInit
    /\ [][Next]_vars
    /\ WF_vars(BeginAttempt)
    /\ WF_vars(PlaceMine)
    /\ WF_vars(FinishAttempt)
    /\ WF_vars(ReturnFallback)

\* C13: a call of generateGuaranteedBoard with valid parameters eventually
\* returns: under fair random choice the placement loop of every attempt
\* places all its mines, and the attempt loop makes at most 500 attempts.
C13_EventuallyReturns ==
    /\ ValidArgs ~> pc = "returned"
    /\ (pc = "place") ~> (pc = "place" /\ placed = args.mines)
    /\ [](attempts <= 500)

\* A candidate with mines is returned by the last attempt the loop allows.
C13_Witness ==
    /\ ValidArgs
    /\ pc = "returned"
    /\ attempts = 500
    /\ placed = args.mines
    /\ board.isMine # {}

----------------------------------------------------------------------------
(* Grids handed to the exported functions *)

SubsetsUpTo(S, n) == {T \in SUBSET S : Cardinality(T) <= n}

\* The boards of one shape with their counts computed as the generator
\* computes them, some cells revealed and some hidden cells flagged (a
\* right click flags hidden cells only, and floodFill leaves flagged cells
\* hidden).
Grids(rows, cols) ==
    {[ComputeCounts([createEmptyBoard(rows, cols) EXCEPT !.isMine = g[1]])
         EXCEPT !.isRevealed = g[2], !.isFlagged = g[3]] :
        g \in {h \in SubsetsUpTo(Cells(rows, cols), MaxGridMines)
                         \X SubsetsUpTo(Cells(rows, cols), MaxRevealed)
                         \X SubsetsUpTo(Cells(rows, cols), MaxFlagged) :
                  h[2] \cap h[3] = {}}}

NoArgs == [rows |-> 0, cols |-> 0, mines |-> 0, startX |-> 0, startY |-> 0]

\* The 8 neighbours of cell p on board b, as a set.
NeighbourSet(b, p) ==
    {q \in Cells(b.rows, b.cols) :
        /\ q # p
        /\ q[1] \in p[1] - 1 .. p[1] + 1
        /\ q[2] \in p[2] - 1 .. p[2] + 1}

\* Row-major order of cells.
Before(p, q) == p[1] < q[1] \/ (p[1] = q[1] /\ p[2] <= q[2])

First(S) == CHOOSE p \in S : \A q \in S : Before(p, q)

----------------------------------------------------------------------------
(* findHint called on a grid *)

HintShapes == {<<1, 3>>, <<2, 3>>}

HintInit ==
    /\ board \in UNION {Grids(sh[1], sh[2]) : sh \in HintShapes}
    /\ args = NoArgs
    /\ attempts = 0
    /\ placed = 0
    /\ pc = "grid"
    /\ call = NoCall
    /\ solver = NoSolver

\* const hint = findHint(board)
HintCall ==
    /\ pc = "grid"
    /\ call' = [op |-> "findHint", result |-> findHint(board)]
    /\ pc' = "called"
    /\ UNCHANGED <<args, board, attempts, placed, solver>>

HintNext == HintCall

SpecHint == HintInit /\ [][HintNext]_vars

\* The hidden unflagged neighbours and the flagged neighbours of p.
HiddenUnflaggedAround(b, p) == NeighbourSet(b, p) \ (b.isRevealed \cup b.isFlagged)

FlaggedAround(b, p) == NeighbourSet(b, p) \cap b.isFlagged

MineRuleHolds(b, p) ==
    b.neighborCount[p] =
        Cardinality(FlaggedAround(b, p)) + Cardinality(HiddenUnflaggedAround(b, p))

SafeRuleHolds(b, p) == b.neighborCount[p] = Cardinality(FlaggedAround(b, p))

\* The revealed numbered cells with a hidden unflagged neighbour that
\* satisfy the mine rule or the safe rule.
Deducing(b) ==
    {p \in b.isRevealed :
        /\ InBounds(p[1], p[2], b.rows, b.cols)
        /\ b.neighborCount[p] > 0
        /\ HiddenUnflaggedAround(b, p) # {}
        /\ MineRuleHolds(b, p) \/ SafeRuleHolds(b, p)}

\* The move the first deducing cell gives.
FirstMove(b) ==
    LET p == First(Deducing(b))
        q == First(HiddenUnflaggedAround(b, p))
    IN  [x |-> q[1], y |-> q[2],
         type |-> IF MineRuleHolds(b, p) THEN "MINE" ELSE "SAFE"]

\* The grid [count 1][mine][count 1] with only (0, 0) revealed and no flags.
ExampleGrid ==
    [ComputeCounts([createEmptyBoard(1, 3) EXCEPT !.isMine = {<<0, 1>>}])
        EXCEPT !.isRevealed = {<<0, 0>>}]

\* C6: findHint returns the move of the first revealed numbered cell, in
\* row-major order, that has a hidden unflagged neighbour and satisfies a
\* rule: kind MINE when the mine rule holds, otherwise SAFE, at the first
\* hidden unflagged neighbour of that cell; on the grid [1][mine][1] with
\* only (0, 0) revealed it returns (0, 1) with kind MINE.
C6_FirstDeduction ==
    call.op = "findHint" =>
        /\ Deducing(board) # {} => call.result = FirstMove(board)
        /\ board = ExampleGrid => call.result = [x |-> 0, y |-> 1, type |-> "MINE"]

\* The scan passes a revealed numbered cell that deduces nothing, and the
\* cell that deduces has two hidden unflagged neighbours to choose from.
C6_Witness ==
    /\ call.op = "findHint"
    /\ call.result # NoHint
    /\ Cardinality(HiddenUnflaggedAround(board, First(Deducing(board)))) >= 2
    /\ \E p \in board.isRevealed \ Deducing(board) :
          /\ board.neighborCount[p] > 0
          /\ HiddenUnflaggedAround(board, p) # {}
          /\ Before(p, First(Deducing(board)))

\* C7: findHint returns null exactly when no revealed numbered cell with a
\* hidden unflagged neighbour satisfies the mine rule or the safe rule, so it
\* returns null when no cell is revealed and when every revealed cell counts
\* 0; a move it returns names an in-bounds cell that is hidden and unflagged.
C7_NullExactly ==
    call.op = "findHint" =>
        /\ call.result = NoHint <=> Deducing(board) = {}
        /\ board.isRevealed = {} => call.result = NoHint
        /\ (\A p \in board.isRevealed : board.neighborCount[p] = 0) => call.result = NoHint
        /\ call.result # NoHint =>
              /\ InBounds(call.result.x, call.result.y, board.rows, board.cols)
              /\ <<call.result.x, call.result.y>> \notin board.isRevealed
              /\ <<call.result.x, call.result.y>> \notin board.isFlagged

\* null although a revealed numbered cell has a hidden unflagged neighbour.
C7_Witness ==
    /\ call.op = "findHint"
    /\ call.result = NoHint
    /\ \E p \in board.isRevealed :
          board.neighborCount[p] > 0 /\ HiddenUnflaggedAround(board, p) # {}

\* The counts of b are correct: every non-mine cell counts the mines among
\* its 8 neighbours.
CorrectCounts(b) ==
    \A p \in Cells(b.rows, b.cols) \ b.isMine :
        b.neighborCount[p] = Cardinality(MinesAround(b, p))

\* The grid's marks agree with its mines: the counts are correct, every
\* flagged cell is a mine and no revealed cell is one.
MarksAgree(b) ==
    /\ CorrectCounts(b)
    /\ b.isFlagged \subseteq b.isMine
    /\ b.isRevealed \cap b.isMine = {}

\* C20: on a grid with correct counts where every flagged cell is a mine and
\* no revealed cell is a mine, a MINE hint names a mine and a SAFE hint names
\* a cell that is not a mine.
C20_HintsSound ==
    (call.op = "findHint" /\ MarksAgree(board) /\ call.result # NoHint) =>
        /\ call.result.type = "MINE" => <<call.result.x, call.result.y>> \in board.isMine
        /\ call.result.type = "SAFE" => <<call.result.x, call.result.y>> \notin board.isMine

\* A SAFE hint drawn from a flagged mine, on a grid that has a second mine.
C20_Witness ==
    /\ call.op = "findHint"
    /\ MarksAgree(board)
    /\ call.result # NoHint
    /\ call.result.type = "SAFE"
    /\ board.isFlagged # {}
    /\ board.isMine \ board.isFlagged # {}

----------------------------------------------------------------------------
(* floodFill called on a grid, once and then again *)

FloodShapes == {<<2, 3>>}

FloodInit ==
    /\ board \in UNION {Grids(sh[1], sh[2]) : sh \in FloodShapes}
    /\ args = NoArgs
    /\ attempts = 0
    /\ placed = 0
    /\ pc = "grid"
    /\ call = NoCall
    /\ solver = NoSolver

\* floodFill(board, x, y), for coordinates in the grid and one step out of it.
FloodFillCall ==
    /\ pc = "grid"
    /\ \E x \in -1 .. board.rows, y \in -1 .. board.cols :
          /\ board' = floodFill(board, x, y)
          /\ call' = [op |-> "floodFill", x |-> x, y |-> y, n |-> 1,
                      before |-> board, once |-> board']
    /\ pc' = "called"
    /\ UNCHANGED <<args, attempts, placed, solver>>

\* The same call a second time in a row.
FloodFillAgain ==
    /\ pc = "called"
    /\ call.op = "floodFill"
    /\ call.n = 1
    /\ board' = floodFill(board, call.x, call.y)
    /\ call' = [call EXCEPT !.n = 2]
    /\ UNCHANGED <<args, attempts, placed, pc, solver>>

FloodNext ==
    \/ FloodFillCall
    \/ FloodFillAgain

SpecFlood == FloodInit /\ [][FloodNext]_vars

\* The cells a fill can enter: in bounds, hidden and unflagged.
Open(b) == Cells(b.rows, b.cols) \ (b.isRevealed \cup b.isFlagged)

\* One more step of every path inside the set O of cells: the neighbours in
\* O of the cells of R that count 0.
Spread(b, O, R) ==
    R \cup {q \in O : \E p \in R : b.neighborCount[p] = 0 /\ q \in NeighbourSet(b, p)}

RECURSIVE Closure(_, _, _)
Closure(b, O, R) == IF Spread(b, O, R) = R THEN R ELSE Closure(b, O, Spread(b, O, R))

\* The start cell and every cell reachable from it by 8-neighbour steps
\* through open cells that count 0, the last cell of a path being open.
Reachable(b, x, y) == Closure(b, Open(b), {<<x, y>>})

NewlyRevealed == board.isRevealed \ call.before.isRevealed

\* C8: after floodFill on an in-bounds, hidden, unflagged start, the newly
\* revealed cells are exactly the start and the cells reachable from it by
\* 8-neighbour paths whose earlier cells count 0 and were hidden and
\* unflagged before the call, the cells reached being hidden and unflagged.
C8_RevealsZeroRegionAndBorder ==
    (/\ call.op = "floodFill"
     /\ call.n = 1
     /\ <<call.x, call.y>> \in Open(call.before)) =>
        NewlyRevealed = Reachable(call.before, call.x, call.y)

\* A fill that spread through two cells counting 0, stopped at a numbered
\* cell with a hidden neighbour beyond it, and went round a flag.
C8_Witness ==
    /\ call.op = "floodFill"
    /\ call.n = 1
    /\ <<call.x, call.y>> \in Open(call.before)
    /\ Cardinality({p \in NewlyRevealed : board.neighborCount[p] = 0}) >= 2
    /\ \E p \in NewlyRevealed :
          /\ board.neighborCount[p] > 0
          /\ NeighbourSet(board, p) \cap Open(board) # {}
    /\ \E p \in NewlyRevealed :
          board.neighborCount[p] = 0 /\ NeighbourSet(board, p) \cap board.isFlagged # {}

\* C9: on a grid with correct counts, floodFill started at a non-mine cell
\* reveals no mine, whatever cells are flagged or already revealed.
C9_NoMineRevealed ==
    (/\ call.op = "floodFill"
     /\ call.n = 1
     /\ CorrectCounts(call.before)
     /\ InBounds(call.x, call.y, board.rows, board.cols)
     /\ <<call.x, call.y>> \notin call.before.isMine) =>
        NewlyRevealed \cap board.isMine = {}

\* A fill from a non-mine cell that revealed a numbered cell next to a hidden
\* mine, on a grid with a flag and a revealed cell.
C9_Witness ==
    /\ call.op = "floodFill"
    /\ call.n = 1
    /\ CorrectCounts(call.before)
    /\ <<call.x, call.y>> \in Open(call.before) \ board.isMine
    /\ Cardinality(NewlyRevealed) >= 3
    /\ call.before.isRevealed # {}
    /\ board.isFlagged # {}
    /\ \E p \in NewlyRevealed : MinesAround(board, p) \ board.isRevealed # {}

\* C10: floodFill is idempotent: after floodFill(grid, r, c) twice in a row
\* the grid is as it was after the first call.
C10_Idempotent ==
    (call.op = "floodFill" /\ call.n = 2) => board = call.once

\* The second of two calls, the first of which spread beyond its start.
C10_Witness ==
    /\ call.op = "floodFill"
    /\ call.n = 2
    /\ Cardinality(call.once.isRevealed \ call.before.isRevealed) >= 2

\* C15: floodFill(grid, r, c) leaves the whole grid unchanged when (r, c) is
\* out of bounds, already revealed, or flagged.
C15_NoOpOutsideRevealedFlagged ==
    (/\ call.op = "floodFill"
     /\ call.n = 1
     /\ \/ ~InBounds(call.x, call.y, call.before.rows, call.before.cols)
        \/ <<call.x, call.y>> \in call.before.isRevealed
        \/ <<call.x, call.y>> \in call.before.isFlagged) =>
        board = call.before

\* A call on a flagged cell that counts 0 and has hidden neighbours.
C15_Witness ==
    /\ call.op = "floodFill"
    /\ call.n = 1
    /\ <<call.x, call.y>> \in call.before.isFlagged
    /\ call.before.neighborCount[<<call.x, call.y>>] = 0
    /\ NeighbourSet(board, <<call.x, call.y>>) \cap Open(board) # {}

\* C16: floodFill leaves isMine, isFlagged and neighborCount of every cell
\* unchanged, leaves isRevealed of every flagged cell unchanged, and never
\* turns a revealed cell back to hidden: it only sets isRevealed to true.
C16_OnlyReveals ==
    call.op = "floodFill" =>
        /\ board.rows = call.before.rows
        /\ board.cols = call.before.cols
        /\ board.isMine = call.before.isMine
        /\ board.isFlagged = call.before.isFlagged
        /\ board.neighborCount = call.before.neighborCount
        /\ board.isRevealed \cap board.isFlagged
              = call.before.isRevealed \cap call.before.isFlagged
        /\ call.before.isRevealed \subseteq board.isRevealed

\* A fill that spread past a flagged cell on a grid with a mine and a cell
\* revealed before.
C16_Witness ==
    /\ call.op = "floodFill"
    /\ call.n = 1
    /\ Cardinality(NewlyRevealed) >= 3
    /\ board.isMine # {}
    /\ call.before.isRevealed # {}
    /\ \E p \in NewlyRevealed :
          board.neighborCount[p] = 0 /\ NeighbourSet(board, p) \cap board.isFlagged # {}

----------------------------------------------------------------------------
(* isSolvable called on a grid, one step of its loop at a time *)

SolveShapes == {<<1, 4>>, <<2, 3>>}

SolveInit ==
    /\ board \in UNION {Grids(sh[1], sh[2]) : sh \in SolveShapes}
    /\ args \in {[rows |-> board.rows, cols |-> board.cols,
                  mines |-> Cardinality(board.isMine),
                  startX |-> p[1], startY |-> p[2]] : p \in Cells(board.rows, board.cols)}
    /\ attempts = 0
    /\ placed = 0
    /\ pc = "grid"
    /\ call = NoCall
    /\ solver = NoSolver

\* The shadow state is built and reveal(startX, startY) is called.
SolveStart ==
    /\ pc = "grid"
    /\ solver' = StartSolver(board, args.startX, args.startY)
    /\ pc' = "started"
    /\ UNCHANGED <<args, board, attempts, placed, call>>

\* The scan visits its next cell.
SolveVisit ==
    /\ pc \in {"started", "solving"}
    /\ ~solver.done
    /\ solver.k < board.rows * board.cols
    /\ solver' = SolverStep(board, solver)
    /\ pc' = "solving"
    /\ UNCHANGED <<args, board, attempts, placed, call>>

\* The scan is over: "while (progress)" starts another or ends the loop.
SolveTest ==
    /\ pc = "solving"
    /\ ~solver.done
    /\ solver.k = board.rows * board.cols
    /\ solver' = SolverStep(board, solver)
    /\ UNCHANGED <<args, board, attempts, placed, pc, call>>

\* The final scan and the return.
SolveReturn ==
    /\ pc = "solving"
    /\ solver.done
    /\ call' = [op |-> "isSolvable", result |-> AllSafeRevealed(board, solver.solved)]
    /\ pc' = "called"
    /\ UNCHANGED <<args, board, attempts, placed, solver>>

SolveNext ==
    \/ SolveStart
    \/ SolveVisit
    \/ SolveTest
    \/ SolveReturn

SpecSolve == SolveInit /\ [][SolveNext]_vars

\* The hidden unflagged neighbours and the flagged neighbours of p in shadow
\* state s.
ShadowUnknown(b, s, p) == NeighbourSet(b, p) \ (s.revealed \cup s.flagged)

ShadowFlagged(b, s, p) == NeighbourSet(b, p) \cap s.flagged

\* A full scan of shadow state s fires neither rule.
FixedPoint(b, s) ==
    \A p \in s.revealed :
        (b.neighborCount[p] > 0 /\ ShadowUnknown(b, s, p) # {}) =>
            /\ b.neighborCount[p] #
                  Cardinality(ShadowFlagged(b, s, p)) + Cardinality(ShadowUnknown(b, s, p))
            /\ b.neighborCount[p] # Cardinality(ShadowFlagged(b, s, p))

\* The shadow state the loop starts from: the grid's revealed cells and the
\* zero-expansion from the start cell, no flags.
StartShadow(b, x, y) ==
    [revealed |-> b.isRevealed \cup
                     (IF <<x, y>> \in b.isRevealed THEN {}
                      ELSE Closure(b, Cells(b.rows, b.cols) \ b.isRevealed, {<<x, y>>})),
     flagged |-> {}]

\* C5: isSolvable returns true if and only if every non-mine cell is revealed
\* in the shadow state the loop ends in; that state is one in which a full
\* scan fires neither rule, and it grew from the grid's revealed cells with
\* all flags cleared plus the zero-expansion from the start; the mines need
\* not be flagged or revealed.
C5_TrueIffAllSafeRevealed ==
    /\ pc = "started" => solver.solved = StartShadow(board, args.startX, args.startY)
    /\ call.op = "isSolvable" =>
          /\ call.result <=> (Cells(board.rows, board.cols) \ board.isMine
                                 \subseteq solver.solved.revealed)
          /\ FixedPoint(board, solver.solved)
          /\ StartShadow(board, args.startX, args.startY).revealed
                \subseteq solver.solved.revealed

\* true is returned after a scan flagged a mine, with a mine neither flagged nor
\* revealed in the shadow state and a flag of the grid that was cleared.
C5_Witness ==
    /\ call.op = "isSolvable"
    /\ call.result
    /\ board.isMine \ (solver.solved.revealed \cup solver.solved.flagged) # {}
    /\ solver.solved.flagged # {}
    /\ board.isFlagged \ solver.solved.flagged # {}

\* C14: isSolvable never changes the grid it is given (the deductions go to
\* the shadow state only), and its result does not depend on the grid's
\* flags: it is the result for the same grid with every flag cleared.
C14_GridUntouchedFlagsIgnored ==
    /\ [][board' = board]_vars
    /\ [](call.op = "isSolvable" =>
             call.result = isSolvable([board EXCEPT !.isFlagged = {}],
                                      args.startX, args.startY))

\* A call that revealed and flagged cells in the shadow state of a grid that
\* carries a flag of its own elsewhere.
C14_Witness ==
    /\ call.op = "isSolvable"
    /\ board.isFlagged # {}
    /\ solver.solved.flagged # {}
    /\ board.isFlagged \cap solver.solved.flagged = {}
    /\ solver.solved.revealed # board.isRevealed

\* The solver has run on the grid: its shadow state exists.
Entered == pc \in {"started", "solving", "called"}

\* C18 as stated: on any board without mines, all counts 0, isSolvable
\* returns true from every start: the expansion from the start reveals every
\* cell and no rule ever fires.
C18_MineFreeAlwaysTrue ==
    board.isMine = {} =>
        /\ Entered => /\ solver.solved.revealed = Cells(board.rows, board.cols)
                      /\ ~solver.progress
                      /\ solver.solved.flagged = {}
        /\ call.op = "isSolvable" => call.result

\* C18: on a board without mines, all counts 0 and no cell revealed yet (the
\* empty fallback is one), isSolvable returns true from every start: the
\* expansion from the start reveals every cell, and no rule ever fires.
C18_FreshMineFreeTrue ==
    (board.isMine = {} /\ board.isRevealed = {}) =>
        /\ Entered => /\ solver.solved.revealed = Cells(board.rows, board.cols)
                      /\ ~solver.progress
                      /\ solver.solved.flagged = {}
        /\ call.op = "isSolvable" => call.result

\* true returned for a board without mines and without revealed cells, from
\* a start that is not the first cell.
C18_Witness ==
    /\ call.op = "isSolvable"
    /\ call.result
    /\ board.isMine = {}
    /\ board.isRevealed = {}
    /\ <<args.startX, args.startY>> # <<0, 0>>
    /\ solver.solved.revealed = Cells(board.rows, board.cols)

\* C19: on a grid with correct counts, no revealed mine and a non-mine start,
\* every shadow state of the solver (after the expansion from the start and
\* after every visit of every scan) has mines only under its flags and no mine
\* among its revealed cells.
C19_SolverSound ==
    (/\ Entered
     /\ CorrectCounts(board)
     /\ board.isRevealed \cap board.isMine = {}
     /\ <<args.startX, args.startY>> \notin board.isMine) =>
        /\ solver.solved.flagged \subseteq board.isMine
        /\ solver.solved.revealed \cap board.isMine = {}

\* A scan in progress after both rules acted: the shadow state holds a flag
\* and a cell revealed by the safe rule.
C19_Witness ==
    /\ pc = "solving"
    /\ ~solver.done
    /\ CorrectCounts(board)
    /\ board.isRevealed \cap board.isMine = {}
    /\ <<args.startX, args.startY>> \notin board.isMine
    /\ solver.solved.flagged # {}
    /\ solver.solved.revealed \ StartShadow(board, args.startX, args.startY).revealed # {}

\* isSolvable run to its return: a call in progress takes its next step.
FairSolve == SpecSolve /\ WF_vars(SolveNext)

\* The number of shadow cells that are flagged or revealed.
Known(s) == Cardinality(s.flagged \cup s.revealed)

\* The cell the scan is about to visit, and what its visit does.
VisitedCell == CellAt(solver.k, board.cols)

ThisVisit == Visit(board, solver.solved, VisitedCell[1], VisitedCell[2])

Visiting == Entered /\ ~solver.done /\ solver.k < board.rows * board.cols

\* C21: the fixed-point loop of isSolvable terminates.  No visit lowers the
\* number of shadow cells flagged or revealed, a visit in which a rule fires
\* raises it and sets progress, and progress is set by nothing else, so a
\* pass that sets progress ends with more such cells than it began with; the
\* two rules never both fire in one visit; after a pass that left progress
\* unset the loop ends, after any other pass a new one begins; and the call
\* returns.
C21_LoopTerminates ==
    /\ [][Visiting =>
             /\ Known(solver'.solved) >= Known(solver.solved)
             /\ solver.solved.flagged \subseteq solver'.solved.flagged
             /\ solver.solved.revealed \subseteq solver'.solved.revealed
             /\ ThisVisit.fired => Known(solver'.solved) > Known(solver.solved)
             /\ solver'.progress <=> (solver.progress \/ ThisVisit.fired)]_vars
    /\ [](Visiting /\ ~Skipped(board, solver.solved, VisitedCell[1], VisitedCell[2]) =>
             ~(/\ MineRule(board, Around(board, solver.solved, VisitedCell[1], VisitedCell[2]),
                           VisitedCell[1], VisitedCell[2])
               /\ SafeRule(board, Around(board, solver.solved, VisitedCell[1], VisitedCell[2]),
                           VisitedCell[1], VisitedCell[2])))
    /\ [][(Entered /\ ~solver.done /\ solver.k = board.rows * board.cols) =>
             /\ solver'.solved = solver.solved
             /\ solver'.done <=> ~solver.progress
             /\ solver.progress => (solver'.k = 0 /\ ~solver'.progress)]_vars
    /\ [](Entered /\ solver.done => ~solver.progress)
    /\ (pc = "grid") ~> (pc = "called")

\* A pass that set progress has ended, with more shadow cells flagged or
\* revealed than the loop started from: another pass follows.
C21_Witness ==
    /\ pc = "solving"
    /\ ~solver.done
    /\ solver.k = board.rows * board.cols
    /\ solver.progress
    /\ Known(solver.solved) > Known(StartShadow(board, args.startX, args.startY))

----------------------------------------------------------------------------
(* A generated board played by hints alone *)

PlayShapes == {<<3, 4>>, <<4, 4>>}

PlayArgs ==
    {a \in {[rows |-> sh[1], cols |-> sh[2], mines |-> m, startX |-> p[1], startY |-> p[2]] :
               sh \in PlayShapes, m \in 0 .. MaxMines, p \in Cells(4, 4)} :
        /\ InBounds(a.startX, a.startY, a.rows, a.cols)
        /\ a.mines < a.rows * a.cols - 9}

\* The candidates an attempt of generateGuaranteedBoard(a) can build: mines
\* mines on distinct cells not near the start, and the counts.
Candidates(a) ==
    {ComputeCounts([createEmptyBoard(a.rows, a.cols) EXCEPT !.isMine = M]) :
        M \in {N \in SUBSET {p \in Cells(a.rows, a.cols) :
                                ~isNearStart(p[1], p[2], a.startX, a.startY)} :
                  Cardinality(N) = a.mines}}

PlayInit ==
    /\ args \in PlayArgs
    /\ board \in Candidates(args)
    /\ attempts = 0
    /\ placed = 0
    /\ pc = "candidate"
    /\ call = [op |-> "play", moves |-> 0]
    /\ solver = NoSolver

\* if (isSolvable(board, startX, startY)) return board; a candidate that
\* fails the test is dropped.
PlayReturn ==
    /\ pc = "candidate"
    /\ pc' = IF isSolvable(board, args.startX, args.startY) THEN "returned" ELSE "dropped"
    /\ UNCHANGED <<args, board, attempts, placed, call, solver>>

\* The first click: floodFill(newBoard, x, y) on the board just generated.
PlayStart ==
    /\ pc = "returned"
    /\ board' = floodFill(board, args.startX, args.startY)
    /\ pc' = "playing"
    /\ UNCHANGED <<args, attempts, placed, call, solver>>

\* The player takes the move of findHint: a click on a SAFE cell, a flag on
\* a MINE cell.
TakeHint ==
    /\ pc = "playing"
    /\ \E hint \in {findHint(board)} :
          /\ hint # NoHint
          /\ board' = IF hint.type = "SAFE"
                      THEN floodFill(board, hint.x, hint.y)
                      ELSE [board EXCEPT !.isFlagged = @ \cup {<<hint.x, hint.y>>}]
    /\ call' = [call EXCEPT !.moves = @ + 1]
    /\ UNCHANGED <<args, attempts, placed, pc, solver>>

PlayNext ==
    \/ PlayReturn
    \/ PlayStart
    \/ TakeHint

SpecPlay == PlayInit /\ [][PlayNext]_vars

\* The player makes the first click and goes on as long as findHint gives
\* a move to take.
FairPlay == SpecPlay /\ WF_vars(PlayStart) /\ WF_vars(TakeHint)

SafeHidden == Cells(board.rows, board.cols) \ (board.isMine \cup board.isRevealed)

\* C4: on a generated board, after floodFill at the start, a player who keeps
\* taking the move of findHint always has a move while a non-mine cell is
\* hidden, never reveals a mine, and after finitely many moves has every
\* non-mine cell revealed.
C4_HintsFinish ==
    /\ [](pc = "playing" =>
             /\ SafeHidden # {} => findHint(board) # NoHint
             /\ board.isRevealed \cap board.isMine = {})
    /\ pc = "returned" ~> (pc = "playing" /\ SafeHidden = {})

\* A game finished after moves of both kinds that the first fill left open.
C4_Witness ==
    /\ pc = "playing"
    /\ SafeHidden = {}
    /\ call.moves >= 3
    /\ Cardinality(board.isFlagged) >= 2
    /\ call.moves > Cardinality(board.isFlagged)

----------------------------------------------------------------------------
(* The game: App's handlers *)

\* The game is followed on one small difficulty.  pc holds status; call holds
\* the flags counter, the hinted cell with its hintType (NoHint: no cell is
\* hinted), and the first clicks whose callback is pending.  The timer and
\* the hint message are not modelled: no handler reads them.
GameConfigs ==
    {[rows |-> 3, cols |-> 4, mines |-> 1, startX |-> 0, startY |-> 0],
     [rows |-> 4, cols |-> 4, mines |-> 2, startX |-> 0, startY |-> 0]}

\* What generateGuaranteedBoard(rows, cols, mines, x, y) can return: a
\* candidate that isSolvable accepts, or the empty fallback when candidates
\* that it rejects exist.
Returnable(a, x, y) ==
    LET ga == [a EXCEPT !.startX = x, !.startY = y]
    IN  {b \in Candidates(ga) : isSolvable(b, x, y)}
           \cup (IF \E b \in Candidates(ga) : ~isSolvable(b, x, y)
                 THEN {createEmptyBoard(a.rows, a.cols)}
                 ELSE {})

\* The status checkWin leaves after a click on board b.
checkWin(b, status) ==
    IF Cardinality(b.isRevealed) = args.rows * args.cols - args.mines THEN "WON" ELSE status

\* The state after the mount effect has run initGame.
GameInit ==
    /\ args \in GameConfigs
    /\ board = createEmptyBoard(args.rows, args.cols)
    /\ attempts = 0
    /\ placed = 0
    /\ pc = "IDLE"
    /\ call = [op |-> "App", flags |-> 0, hint |-> NoHint, pending |-> <<>>]
    /\ solver = NoSolver

\* The reset button (and a change of difficulty): initGame.  A pending
\* callback is not cancelled.
initGame ==
    /\ board' = createEmptyBoard(args.rows, args.cols)
    /\ pc' = "IDLE"
    /\ call' = [call EXCEPT !.flags = 0, !.hint = NoHint]
    /\ UNCHANGED <<args, attempts, placed, solver>>

\* A left click on cell (x, y).
handleCellClick ==
    /\ pc \notin {"WON", "LOST"}
    /\ \E x \in 0 .. args.rows - 1, y \in 0 .. args.cols - 1 :
          /\ <<x, y>> \notin board.isFlagged
          /\ IF pc = "IDLE"
             THEN /\ Len(call.pending) < MaxPending
                  /\ pc' = "GENERATING"
                  /\ call' = [call EXCEPT !.pending = Append(@, <<x, y>>)]
                  /\ UNCHANGED board
             ELSE IF <<x, y>> \in board.isMine
             THEN /\ board' = [board EXCEPT !.isRevealed = @ \cup {<<x, y>>}]
                  /\ pc' = "LOST"
                  /\ call' = [call EXCEPT !.hint = NoHint]
             ELSE /\ board' = floodFill(board, x, y)
                  /\ pc' = checkWin(board', pc)
                  /\ call' = [call EXCEPT !.hint = NoHint]
    /\ UNCHANGED <<args, attempts, placed, solver>>

\* The callback of the first click's setTimeout: the board is generated for
\* the clicked cell and opened there.
generateCallback ==
    /\ call.pending # <<>>
    /\ \E newBoard \in Returnable(args, Head(call.pending)[1], Head(call.pending)[2]) :
          board' = floodFill(newBoard, Head(call.pending)[1], Head(call.pending)[2])
    /\ pc' = "PLAYING"
    /\ call' = [call EXCEPT !.pending = Tail(@), !.hint = NoHint]
    /\ UNCHANGED <<args, attempts, placed, solver>>

\* A slip: a revealed cell can be flagged.
handleRightClickAnyCell ==
    /\ pc \in {"PLAYING", "IDLE"}
    /\ \E x \in 0 .. args.rows - 1, y \in 0 .. args.cols - 1 :
          IF <<x, y>> \in board.isFlagged
          THEN /\ board' = [board EXCEPT !.isFlagged = @ \ {<<x, y>>}]
               /\ call' = [call EXCEPT !.flags = @ - 1, !.hint = NoHint]
          ELSE /\ Cardinality(board.isFlagged) < MaxGameFlags
               /\ board' = [board EXCEPT !.isFlagged = @ \cup {<<x, y>>}]
               /\ call' = [call EXCEPT !.flags = @ + 1, !.hint = NoHint]
    /\ UNCHANGED <<args, attempts, placed, pc, solver>>

\* A right click on cell (x, y): the flag is toggled and counted.
handleRightClick ==
    /\ pc \in {"PLAYING", "IDLE"}
    /\ \E x \in 0 .. args.rows - 1, y \in 0 .. args.cols - 1 :
          /\ <<x, y>> \notin board.isRevealed
          /\ IF <<x, y>> \in board.isFlagged
             THEN /\ board' = [board EXCEPT !.isFlagged = @ \ {<<x, y>>}]
                  /\ call' = [call EXCEPT !.flags = @ - 1, !.hint = NoHint]
             ELSE /\ Cardinality(board.isFlagged) < MaxGameFlags
                  /\ board' = [board EXCEPT !.isFlagged = @ \cup {<<x, y>>}]
                  /\ call' = [call EXCEPT !.flags = @ + 1, !.hint = NoHint]
    /\ UNCHANGED <<args, attempts, placed, pc, solver>>

\* The hint button: the cell findHint names is marked; with no hint only the
\* message changes.
triggerHint ==
    /\ pc = "PLAYING"
    /\ \E hint \in {findHint(board)} :
          call' = [call EXCEPT !.hint = IF hint = NoHint THEN @ ELSE hint]
    /\ UNCHANGED <<args, board, attempts, placed, pc, solver>>

GameNext ==
    \/ initGame
    \/ handleCellClick
    \/ generateCallback
    \/ handleRightClick
    \/ triggerHint

SpecGame == GameInit /\ [][GameNext]_vars

\* C17: in every state reachable through left clicks, right clicks, hint
\* requests and resets, no cell is both revealed and flagged.
C17_NeverRevealedAndFlagged == board.isRevealed \cap board.isFlagged = {}

\* A game in play with a flag standing next to revealed cells.
C17_Witness ==
    /\ pc = "PLAYING"
    /\ board.isFlagged # {}
    /\ \E p \in board.isFlagged : NeighbourSet(board, p) \cap board.isRevealed # {}
    /\ call.hint # NoHint

\* What the flags counter shows above the flags of the current board.
Drift == call.flags - Cardinality(board.isFlagged)

\* C22: in every state of the game the flags counter equals the number of
\* flagged cells of the current board, also after flags were placed before
\* the first reveal and the board was then generated.
C22_CounterCountsFlags == call.flags = Cardinality(board.isFlagged)

\* What the handlers keep instead: the counter is never below the board's
\* flags; the callback of the first click installs a board without flags and
\* leaves the counter as it was; initGame brings both to 0; every other
\* handler keeps the difference.
C22_CounterDrifts ==
    /\ [](Drift >= 0)
    /\ [][IF Len(call'.pending) < Len(call.pending)
          THEN board'.isFlagged = {} /\ call'.flags = call.flags
          ELSE Drift' = Drift \/ (pc' = "IDLE" /\ Drift' = 0)]_vars

\* A game in play on a generated board that carries no flag, while the
\* counter still counts a flag placed before the first reveal.
C22_Witness ==
    /\ pc = "PLAYING"
    /\ board.isMine # {}
    /\ board.isFlagged = {}
    /\ call.flags > 0

====
